---- MODULE Spec2Model ----
(***************************************************************************)
(* Model of prysm/psf.py: estimate_size and its wrappers, centroid,        *)
(* autocrop and encircled_energy.  Every function of the file is pure, so  *)
(* each specification draws the arguments of one call in Init and has one  *)
(* action per function, which applies it and records what the call gave:   *)
(* a value, or the exception it raised.                                    *)
(*                                                                         *)
(* Real numbers are carried exactly as integer fractions: a radius is      *)
(* num/den with den the number of angular slices (the divisor of numpy's   *)
(* mean), a centre of mass is num/den with den the sum of the samples.     *)
(***************************************************************************)
EXTENDS Integers, Sequences, FiniteSets, TLC

VARIABLES inp, op, out

vars == <<inp, op, out>>

----------------------------------------------------------------------------
(* Bounds and sample domains *)

\* total number of samples of a polar array (slices * radial bins)
MaxCells == 6

\* spacing of the radial grid r (r[i] = i * RSpacing)
RSpacing == 2

\* sample values: with a peak of 7 the three relative thresholds 7/2, 7/e and
\* 7/e^2 separate the values (only 7 / 3 and 7 / 1, 3 and 7 lie above them)
Vals == {0, 1, 3, 7}

\* np.e as a fraction; exact for the comparisons of the integers of Vals
ENum == 2718
EDen == 1000

None == [status |-> "none"]

----------------------------------------------------------------------------
(* Helpers standing for numpy and Python built-ins *)

RECURSIVE SumSeq(_)
SumSeq(s) == IF Len(s) = 0 THEN 0 ELSE s[1] + SumSeq(Tail(s))

RECURSIVE MaxSeq(_)
MaxSeq(s) == IF Len(s) = 1 THEN s[1]
             ELSE LET m == MaxSeq(Tail(s)) IN IF s[1] > m THEN s[1] ELSE m

\* polar.max()
PolarMax(polar) == MaxSeq([a \in 1..Len(polar) |-> MaxSeq(polar[a])])

\* row[::-1]
Reverse(row) == [i \in 1..Len(row) |-> row[Len(row) + 1 - i]]

\* np.argmax of a boolean row: the 0-based index of its first True, and 0
\* when no element is True
ArgMax(row) ==
    IF \E i \in 1..Len(row) : row[i]
    THEN (CHOOSE i \in 1..Len(row) : row[i] /\ \A j \in 1..(i - 1) : ~row[j]) - 1
    ELSE 0

\* a comparison that keeps the case of its argument
LowerIdentity(s) == s

\* str.lower() on the strings the model draws
Lower(s) ==
    CASE s = "FWHM"  -> "fwhm"
      [] s = "1/E"   -> "1/e"
      [] s = "1/E^2" -> "1/e^2"
      [] s = "First" -> "first"
      [] s = "LAST"  -> "last"
      [] OTHER       -> s

\* a metric argument: a string or a number
StrMetric(s) == [kind |-> "str", s |-> s, v |-> 0]
NumMetric(v) == [kind |-> "num", s |-> "", v |-> v]

\* the radial grid of uniform_cart_to_polar: n ascending radii from 0
RGrid(n, dr) == [i \in 1..n |-> (i - 1) * dr]

----------------------------------------------------------------------------
(* estimate_size *)

\* the threshold hm as a fraction of integers (lines 63-70)
Threshold(metric, max_) ==
    CASE metric = "fwhm"  -> [num |-> max_, den |-> 2]
      [] metric = "1/e"   -> [num |-> max_ * EDen, den |-> ENum]
      [] metric = "1/e^2" -> [num |-> max_ * EDen * EDen, den |-> ENum * ENum]

\* mask = polar > hm
Mask(polar, hm) ==
    [a \in 1..Len(polar) |->
        [i \in 1..Len(polar[a]) |-> polar[a][i] * hm.den > hm.num]]

\* sum over the slices of np.argmax(mask, axis=1)
SumFirst(mask) == SumSeq([a \in 1..Len(mask) |-> ArgMax(mask[a])])

\* sum over the slices of np.argmax(mask[:, ::-1], axis=1)
SumLastReversed(mask) == SumSeq([a \in 1..Len(mask) |-> ArgMax(Reverse(mask[a]))])

\* r[lowidx] + remainder * r[1], with remainder = sign * remnum / ns; the read
\* of r raises IndexError past its end
Interpolate(r, total, ns, sign) ==
    LET lowidx == total \div ns
        remnum == total % ns
    IN  IF lowidx >= Len(r) \/ Len(r) < 2
        THEN [status |-> "IndexError", lowidx |-> lowidx]
        ELSE [status |-> "ok", lowidx |-> lowidx, den |-> ns,
              num |-> r[lowidx + 1] * ns + sign * remnum * r[2]]

estimate_size(polar, r, metric, criteria) ==
    LET c == Lower(criteria) IN
    IF metric.kind # "str"
    THEN \* metric.lower() on a number
         [status |-> "AttributeError"]
    ELSE
    LET m == Lower(metric.s) IN
    IF m \notin {"fwhm", "1/e", "1/e^2"}
    THEN [status |-> "InvalidMetric"]
    ELSE
    LET hm   == Threshold(m, PolarMax(polar))
        mask == Mask(polar, hm)
        ns   == Len(mask)
        n    == Len(mask[1])
    IN  IF c = "first"
        THEN Interpolate(r, SumFirst(mask), ns, 1)
        ELSE IF c = "last"
        THEN Interpolate(r, n * ns - SumLastReversed(mask), ns, -1)
        ELSE [status |-> "InvalidCriteria"]

\* a result doubled (a raised exception passes through)
Times2(e) == IF e.status = "ok" THEN [e EXCEPT !.num = 2 * @] ELSE e

\* the half width at half maximum returned as it is
fwhm_not_doubled(polar, r, criteria) ==
    estimate_size(polar, r, StrMetric("fwhm"), criteria)

fwhm(polar, r, criteria) ==
    Times2(estimate_size(polar, r, StrMetric("fwhm"), criteria))

one_over_e(polar, r, criteria) ==
    estimate_size(polar, r, StrMetric("1/e"), criteria)

one_over_e2(polar, r, criteria) ==
    estimate_size(polar, r, StrMetric("1/e^2"), criteria)

----------------------------------------------------------------------------
(* Specification of the size estimators *)

Metrics == {StrMetric("FWHM"), StrMetric("1/e"), StrMetric("1/e^2"),
            StrMetric("gaussian"), NumMetric(1)}

Criterias == {"first", "LAST", "middle"}

PolarArrays ==
    UNION { [1..ns -> [1..n -> Vals]] :
            <<ns, n>> \in {s \in (1..MaxCells) \X (2..MaxCells) : s[1] * s[2] <= MaxCells} }

InitSize ==
    /\ \E polar \in PolarArrays, metric \in Metrics, criteria \in Criterias :
          inp = [polar |-> polar, r |-> RGrid(Len(polar[1]), RSpacing),
                 metric |-> metric, criteria |-> criteria]
    /\ op = "none"
    /\ out = None

CallEstimateSize ==
    /\ op = "none"
    /\ op' = "estimate_size"
    /\ out' = estimate_size(inp.polar, inp.r, inp.metric, inp.criteria)
    /\ UNCHANGED inp

\* the wrappers fix the metric of the call they make
CallFwhm ==
    /\ op = "none"
    /\ op' = "fwhm"
    /\ out' = fwhm(inp.polar, inp.r, inp.criteria)
    /\ inp' = [inp EXCEPT !.metric = StrMetric("fwhm")]

CallOneOverE ==
    /\ op = "none"
    /\ op' = "one_over_e"
    /\ out' = one_over_e(inp.polar, inp.r, inp.criteria)
    /\ inp' = [inp EXCEPT !.metric = StrMetric("1/e")]

CallOneOverE2 ==
    /\ op = "none"
    /\ op' = "one_over_e2"
    /\ out' = one_over_e2(inp.polar, inp.r, inp.criteria)
    /\ inp' = [inp EXCEPT !.metric = StrMetric("1/e^2")]

NextSize == CallEstimateSize \/ CallFwhm \/ CallOneOverE \/ CallOneOverE2

SpecSize == InitSize /\ [][NextSize]_vars

----------------------------------------------------------------------------
(* Properties of the size estimators *)

\* the metric strings and criteria the documentation accepts, in any case
EnumeratedMetric(m) ==
    m.kind = "str" /\ m.s \in {"fwhm", "FWHM", "1/e", "1/E", "1/e^2", "1/E^2"}

EnumeratedCriteria(c) == c \in {"first", "First", "last", "LAST"}

IsFirst(c) == c \in {"first", "First"}

\* the mask estimate_size builds for the call recorded in inp
CallMask == Mask(inp.polar, Threshold(Lower(inp.metric.s), PolarMax(inp.polar)))

\* e1 and e2 are the same returned radius
SameRadius(e1, e2) ==
    /\ e1.status = "ok"
    /\ e2.status = "ok"
    /\ e1.num * e2.den = e2.num * e1.den

NonIncreasing(row) == \A i \in 1..(Len(row) - 1) : row[i] >= row[i + 1]

\* identical in every angular slice, values non-increasing with radius and
\* falling from the centre to the outer bin
SymmetricUnimodal(polar) ==
    /\ \A a \in 1..Len(polar) : polar[a] = polar[1]
    /\ NonIncreasing(polar[1])
    /\ polar[1][1] > polar[1][Len(polar[1])]

\* C2: on a perfectly symmetric unimodal profile, criteria 'first' and
\* criteria 'last' return the same radius for the same metric.
C2_FirstEqualsLast ==
    (/\ op = "estimate_size"
     /\ EnumeratedMetric(inp.metric)
     /\ IsFirst(inp.criteria)
     /\ SymmetricUnimodal(inp.polar))
    => SameRadius(out, estimate_size(inp.polar, inp.r, inp.metric, "last"))

\* C3: a numeric metric is accepted as an absolute threshold: with a valid
\* criteria the call completes without an error.
C3_NumericMetricAccepted ==
    (/\ op = "estimate_size"
     /\ inp.metric.kind = "num"
     /\ EnumeratedCriteria(inp.criteria))
    => out.status = "ok"

\* C5 (as stated): estimate_size returns only for an enumerated or numeric
\* metric and an enumerated criteria; every other metric string fails with
\* the invalid-metric error and every other criteria string fails with the
\* invalid-criteria error, without a partial result.  (Stated for string
\* metrics; what a numeric metric does is the subject of C3.)
C5_InvalidArgumentsRejected ==
    op = "estimate_size" =>
        /\ out.status = "ok" =>
              /\ EnumeratedMetric(inp.metric) \/ inp.metric.kind = "num"
              /\ EnumeratedCriteria(inp.criteria)
        /\ (inp.metric.kind = "str" /\ ~EnumeratedMetric(inp.metric))
              => out.status = "InvalidMetric"
        /\ (inp.metric.kind = "str" /\ ~EnumeratedCriteria(inp.criteria))
              => out.status = "InvalidCriteria"
        /\ out.status # "ok" => "num" \notin DOMAIN out

\* C5 (amended): as above, but the invalid-criteria error is raised only when
\* the metric is one of the enumerated strings (in any case): the metric is
\* checked first, so an invalid metric string gives the invalid-metric
\* error whatever the criteria.
C5_MetricCheckedFirst ==
    op = "estimate_size" =>
        /\ out.status = "ok" =>
              /\ EnumeratedMetric(inp.metric) \/ inp.metric.kind = "num"
              /\ EnumeratedCriteria(inp.criteria)
        /\ (inp.metric.kind = "str" /\ ~EnumeratedMetric(inp.metric))
              => out.status = "InvalidMetric"
        /\ (EnumeratedMetric(inp.metric) /\ ~EnumeratedCriteria(inp.criteria))
              => out.status = "InvalidCriteria"
        /\ out.status # "ok" => "num" \notin DOMAIN out

C5_Witness ==
    /\ op = "estimate_size"
    /\ inp.metric = StrMetric("FWHM")
    /\ inp.criteria = "middle"
    /\ out.status = "InvalidCriteria"

\* C6: fwhm is exactly twice estimate_size with metric 'fwhm'; one_over_e
\* and one_over_e2 are estimate_size with '1/e' and '1/e^2', not doubled;
\* each passes the criteria through and raises exactly when estimate_size does.
C6_WrappersAgree ==
    /\ op = "fwhm" =>
          LET e == estimate_size(inp.polar, inp.r, StrMetric("fwhm"), inp.criteria)
          IN  /\ out.status = e.status
              /\ e.status = "ok" => (out.den = e.den /\ out.num = 2 * e.num)
    /\ op = "one_over_e" =>
          LET e == estimate_size(inp.polar, inp.r, StrMetric("1/e"), inp.criteria)
          IN  /\ out.status = e.status
              /\ e.status = "ok" => (out.den = e.den /\ out.num = e.num)
    /\ op = "one_over_e2" =>
          LET e == estimate_size(inp.polar, inp.r, StrMetric("1/e^2"), inp.criteria)
          IN  /\ out.status = e.status
              /\ e.status = "ok" => (out.den = e.den /\ out.num = e.num)

C6_Witness ==
    /\ op = "fwhm"
    /\ out.status = "ok"
    /\ out.num > 0
    /\ LET e == one_over_e(inp.polar, inp.r, inp.criteria)
       IN  e.status = "ok" /\ out.num # 2 * e.num

\* C8: when no sample exceeds the threshold, estimate_size signals no error:
\* 'first' returns r[0], 'last' returns the radius at the last valid index,
\* and the index read from r is within 0..len(r)-1.
C8_NoCrossingInBounds ==
    (/\ op = "estimate_size"
     /\ EnumeratedMetric(inp.metric)
     /\ EnumeratedCriteria(inp.criteria)
     /\ \A a \in 1..Len(CallMask) : \A i \in 1..Len(CallMask[a]) : ~CallMask[a][i])
    => /\ out.status = "ok"
       /\ out.lowidx \in 0..(Len(inp.r) - 1)
       /\ IF IsFirst(inp.criteria)
          THEN out.num = inp.r[1] * out.den
          ELSE out.num = inp.r[Len(inp.r)] * out.den

\* C10: on the uniform grid the returned radius is (mean crossing index) * dr
\* for both criteria, hence within [r[0], r[-1] + dr]; the mean index is
\* carried as (sum of the per-slice indices) / (number of slices).
C10_RadiusIsMeanIndexTimesDr ==
    (/\ op = "estimate_size"
     /\ out.status = "ok")
    => LET ns  == Len(CallMask)
           n   == Len(CallMask[1])
           sum == IF IsFirst(inp.criteria)
                  THEN SumFirst(CallMask)
                  ELSE n * ns - SumLastReversed(CallMask)
       IN  /\ out.num * ns = sum * inp.r[2] * out.den
           /\ out.num >= inp.r[1] * out.den
           /\ out.num <= (inp.r[n] + inp.r[2]) * out.den

----------------------------------------------------------------------------
(* centroid and autocrop *)

\* total number of samples of a data array (rows * columns)
MaxPixels == 9

\* largest window width px and sample spacing dx drawn
MaxPx == 4
MaxDx == 2

DataVals == {0, 1}

Rows(data) == Len(data)
Cols(data) == Len(data[1])

\* sum of all samples
Total(data) == SumSeq([i \in 1..Rows(data) |-> SumSeq(data[i])])

\* sum of value * row index and of value * column index (0-based indices)
RowMoment(data) ==
    SumSeq([i \in 1..Rows(data) |-> (i - 1) * SumSeq(data[i])])
ColMoment(data) ==
    SumSeq([i \in 1..Rows(data) |->
              SumSeq([j \in 1..Cols(data) |-> (j - 1) * data[i][j]])])

\* ndimage.center_of_mass(data): (row, column) as fractions over the total;
\* a zero total divides 0 by 0 and gives nan on both axes
center_of_mass(data) ==
    [y |-> [num |-> RowMoment(data), den |-> Total(data)],
     x |-> [num |-> ColMoment(data), den |-> Total(data)],
     nan |-> (Total(data) = 0)]

\* int(np.ceil(c / 2))
CeilHalf(c) == (c + 1) \div 2

centroid(data, dx, unit) ==
    LET com == center_of_mass(data) IN
    IF unit # "spatial"
    THEN [status |-> "ok", y |-> com.y, x |-> com.x, nan |-> com.nan]
    ELSE [status |-> "ok", nan |-> com.nan,
          y |-> [num |-> dx * (com.y.num - CeilHalf(Rows(data)) * com.y.den),
                 den |-> com.y.den],
          x |-> [num |-> dx * (com.x.num - CeilHalf(Cols(data)) * com.x.den),
                 den |-> com.x.den]]

Min(a, b) == IF a < b THEN a ELSE b
Max(a, b) == IF a > b THEN a ELSE b

\* one bound of a Python slice of a sequence of length n: a negative bound
\* counts from the end, and every bound is clamped into 0..n
SliceBound(b, n) == IF b < 0 THEN Max(b + n, 0) ELSE Min(b, n)

\* the 0-based indices data[l:h] selects along an axis of length n, in order
PySlice(l, h, n) ==
    LET lo == SliceBound(l, n)
        hi == SliceBound(h, n)
    IN  [k \in 1..Max(hi - lo, 0) |-> lo + k - 1]

autocrop(data, px) ==
    LET com == centroid(data, 0, "pixels") IN
    IF com.nan
    THEN \* int(nan)
         [status |-> "ValueError"]
    ELSE
    LET cy == com.y.num \div com.y.den
        cx == com.x.num \div com.x.den
        w  == px \div 2
        aoi_y_l == cy - w
        aoi_y_h == aoi_y_l + w
        aoi_x_l == cx - w
        aoi_x_h == aoi_x_l + w
        rows == PySlice(aoi_y_l, aoi_y_h, Rows(data))
        cols == PySlice(aoi_x_l, aoi_x_h, Cols(data))
    IN  [status |-> "ok", rows |-> rows, cols |-> cols,
         data |-> [i \in 1..Len(rows) |->
                     [j \in 1..Len(cols) |-> data[rows[i] + 1][cols[j] + 1]]]]

DataArrays ==
    UNION { [1..nr -> [1..nc -> DataVals]] :
            <<nr, nc>> \in {s \in (1..MaxPixels) \X (1..MaxPixels) : s[1] * s[2] <= MaxPixels} }

InitCentroid ==
    /\ \E data \in DataArrays : inp = [data |-> data]
    /\ op = "none"
    /\ out = None

CallCentroid ==
    /\ op = "none"
    /\ \E dx \in 1..MaxDx, unit \in {"spatial", "pixels"} :
          /\ inp' = [data |-> inp.data, dx |-> dx, unit |-> unit]
          /\ out' = centroid(inp.data, dx, unit)
    /\ op' = "centroid"

CallAutocrop ==
    /\ op = "none"
    /\ \E px \in 1..MaxPx :
          /\ inp' = [data |-> inp.data, px |-> px]
          /\ out' = autocrop(inp.data, px)
    /\ op' = "autocrop"

NextCentroid == CallCentroid \/ CallAutocrop

SpecCentroid == InitCentroid /\ [][NextCentroid]_vars

----------------------------------------------------------------------------
(* Properties of centroid and autocrop *)

\* the integer pixel centroid autocrop crops around
PixelCentroid(data) ==
    LET com == center_of_mass(data)
    IN  [y |-> com.y.num \div com.y.den, x |-> com.x.num \div com.x.den]

\* C1: when the pixel centroid is at least px//2 samples from the low edges
\* and px - px//2 samples from the high edges, autocrop returns a (px, px)
\* array whose low corner is (centroid_row - px//2, centroid_col - px//2).
C1_CropShapeIsPx ==
    (/\ op = "autocrop"
     /\ out.status = "ok"
     /\ LET c == PixelCentroid(inp.data)
            w == inp.px \div 2
        IN  /\ c.y - w >= 0 /\ c.y - w + inp.px <= Rows(inp.data)
            /\ c.x - w >= 0 /\ c.x - w + inp.px <= Cols(inp.data))
    => LET c == PixelCentroid(inp.data)
           w == inp.px \div 2
       IN  /\ Len(out.rows) = inp.px
           /\ Len(out.cols) = inp.px
           /\ out.rows[1] = c.y - w
           /\ out.cols[1] = c.x - w

\* the single sample at the middle of an axis of n samples
MidIndex(n) == n \div 2

\* the only non-zero sample is at the middle of both axes
SinglePeakAtCenter(data) ==
    \A i \in 1..Rows(data), j \in 1..Cols(data) :
        (data[i][j] # 0) <=> (i - 1 = MidIndex(Rows(data)) /\ j - 1 = MidIndex(Cols(data)))

\* C4: for a single peak at the geometric centre of the array, of odd or even
\* extent, centroid returns (0, 0) in spatial units for every dx > 0 and the
\* index of the centre sample in pixel units.
C4_CenteredPeakIsOrigin ==
    (/\ op = "centroid"
     /\ SinglePeakAtCenter(inp.data))
    => IF inp.unit = "spatial"
       THEN out.y.num = 0 /\ out.x.num = 0
       ELSE /\ out.y.num = MidIndex(Rows(inp.data)) * out.y.den
            /\ out.x.num = MidIndex(Cols(inp.data)) * out.x.den

\* the in-array part of the window [l, h) along an axis of n samples
Truncated(l, h, n) == {i \in 0..(n - 1) : l <= i /\ i < h}

\* C9: when the centroid is within px//2 samples of an edge, autocrop returns
\* the truncated window: exactly the samples of the window it requests that
\* fall inside the array, never others, and never an empty array while the
\* window overlaps the array.
C9_CropTruncatesAtEdges ==
    (/\ op = "autocrop"
     /\ out.status = "ok"
     /\ LET c == PixelCentroid(inp.data)
            w == inp.px \div 2
        IN  /\ c.y < w \/ c.x < w
            /\ Truncated(c.y - w, c.y, Rows(inp.data)) # {}
            /\ Truncated(c.x - w, c.x, Cols(inp.data)) # {})
    => LET c == PixelCentroid(inp.data)
           w == inp.px \div 2
       IN  /\ {out.rows[k] : k \in 1..Len(out.rows)}
                 = Truncated(c.y - w, c.y, Rows(inp.data))
           /\ {out.cols[k] : k \in 1..Len(out.cols)}
                 = Truncated(c.x - w, c.x, Cols(inp.data))

----------------------------------------------------------------------------
(* encircled_energy *)

\* number of samples of the MTF's frequency grid, and its largest value
NFreq == 3
MaxMtf == 2

\* largest radius drawn, and the longest list of radii
MaxRadius == 3
MaxRadii == 2

\* radius / 1e3
MilliScale == 1000

\* the radial frequencies nu_p, none of them 0 once line 321 has run
NuGrid(n) == [i \in 1..n |-> i]

\* special.j1(2 * np.pi * radius * nu) / nu: scipy's Bessel function is not
\* part of the file; an integer-valued kernel of both arguments stands for it
IntegrationKernel(radius, nu) == ((radius * radius + 3 * radius * nu) % 7) - 2

_encircled_energy_core(mtf_data, radius, nu_p, dx, dy) ==
    LET dat == [i \in 1..Len(mtf_data) |->
                  mtf_data[i] * IntegrationKernel(radius, nu_p[i])]
    IN  radius * SumSeq(dat) * dx * dy

NumRadius(v) == [kind |-> "num", v |-> v]
ListRadius(v) == [kind |-> "list", v |-> v]

\* the loop of lines 325-328, out reversed
RECURSIVE EELoopPrepend(_, _, _, _, _, _)
EELoopPrepend(mtf_data, radii, nu_p, dnx, dny, acc) ==
    IF Len(radii) = 0 THEN acc
    ELSE EELoopPrepend(mtf_data, Tail(radii), nu_p, dnx, dny,
            <<_encircled_energy_core(mtf_data, Head(radii) \div MilliScale,
                                     nu_p, dnx, dny)>> \o acc)

\* for r in radius: out.append(core(mtf.data, r / 1e3, nu_p, dnx, dny))
RECURSIVE EELoop(_, _, _, _, _, _)
EELoop(mtf_data, radii, nu_p, dnx, dny, acc) ==
    IF Len(radii) = 0 THEN acc
    ELSE EELoop(mtf_data, Tail(radii), nu_p, dnx, dny,
            Append(acc, _encircled_energy_core(mtf_data, Head(radii) \div MilliScale,
                                               nu_p, dnx, dny)))

\* encircled_energy from the MTF, frequency grid and deltas of lines 317-322
encircled_energy(mtf_data, nu_p, dnx, dny, radius) ==
    IF radius.kind # "num"
    THEN [kind |-> "array", v |-> EELoop(mtf_data, radius.v, nu_p, dnx, dny, <<>>)]
    ELSE [kind |-> "scalar",
          v |-> _encircled_energy_core(mtf_data, radius.v \div MilliScale, nu_p, dnx, dny)]

RadiusVals == {k * MilliScale : k \in 0..MaxRadius}

RadiusLists == UNION { [1..n -> RadiusVals] : n \in 0..MaxRadii }

InitEE ==
    /\ \E mtf_data \in [1..NFreq -> 0..MaxMtf] :
          inp = [mtf_data |-> mtf_data, nu_p |-> NuGrid(NFreq), dnx |-> 1, dny |-> 1]
    /\ op = "none"
    /\ out = None

CallEncircledEnergyScalar ==
    /\ op = "none"
    /\ \E v \in RadiusVals :
          /\ inp' = [mtf_data |-> inp.mtf_data, nu_p |-> inp.nu_p, dnx |-> inp.dnx,
                     dny |-> inp.dny, radius |-> NumRadius(v)]
          /\ out' = encircled_energy(inp.mtf_data, inp.nu_p, inp.dnx, inp.dny, NumRadius(v))
    /\ op' = "encircled_energy"

CallEncircledEnergyList ==
    /\ op = "none"
    /\ \E v \in RadiusLists :
          /\ inp' = [mtf_data |-> inp.mtf_data, nu_p |-> inp.nu_p, dnx |-> inp.dnx,
                     dny |-> inp.dny, radius |-> ListRadius(v)]
          /\ out' = encircled_energy(inp.mtf_data, inp.nu_p, inp.dnx, inp.dny, ListRadius(v))
    /\ op' = "encircled_energy"

NextEE == CallEncircledEnergyScalar \/ CallEncircledEnergyList

SpecEE == InitEE /\ [][NextEE]_vars

----------------------------------------------------------------------------
(* Properties of encircled_energy *)

\* C7: for an iterable of radii the result holds one value per radius, in
\* order, each equal to what the call returns for that radius passed as a
\* single number; for a single number the result is a scalar.
C7_ListMatchesScalar ==
    op = "encircled_energy" =>
        IF inp.radius.kind = "list"
        THEN /\ out.kind = "array"
             /\ Len(out.v) = Len(inp.radius.v)
             /\ \A i \in 1..Len(inp.radius.v) :
                   LET one == encircled_energy(inp.mtf_data, inp.nu_p, inp.dnx,
                                               inp.dny, NumRadius(inp.radius.v[i]))
                   IN  one.kind = "scalar" /\ out.v[i] = one.v
        ELSE out.kind = "scalar"

C7_Witness ==
    /\ op = "encircled_energy"
    /\ inp.radius.kind = "list"
    /\ Len(inp.radius.v) = 2
    /\ out.kind = "array"
    /\ out.v[1] # out.v[2]
    /\ out.v[1] # 0

====
